---- MODULE Spec2Model ----
(***************************************************************************)
(* Model of the cap-table calculator of src/app/page.tsx                   *)
(* (StartupDilutionCalculator): the event recalculation engine             *)
(* (recalculateAllEvents and its helpers) and the handlers that edit the   *)
(* event list of a model (addRound, addOptionPool, updateEvent,            *)
(* removeEvent).                                                           *)
(*                                                                         *)
(* JavaScript numbers are modelled as exact rationals <<n, d>> with d > 0  *)
(* and gcd(n, d) = 1, so that equal numbers are equal values.  Strings     *)
(* built by template literals are modelled as tuples of their parts:       *)
(* `round-${Date.now()}-${model}` is <<"round", now, model>>, the empty    *)
(* string used as an id is <<>>.                                           *)
(***************************************************************************)
EXTENDS Integers, Sequences, FiniteSets, TLC

(***************************************************************************)
(* Exact arithmetic                                                        *)
(***************************************************************************)
Abs(x) == IF x < 0 THEN -x ELSE x

RECURSIVE GCD(_, _)
GCD(a, b) == IF b = 0 THEN a ELSE GCD(b, a % b)

\* the rational n/d in lowest terms (d > 0)
Norm(n, d) ==
  LET g == GCD(Abs(n), d) IN IF g = 0 THEN <<0, 1>> ELSE <<n \div g, d \div g>>

Num(n) == <<n, 1>>
Frac(n, d) == Norm(n, d)

\* sum and difference over the least common denominator
RAdd(x, y) ==
  LET g == GCD(x[2], y[2])
  IN  Norm(x[1] * (y[2] \div g) + y[1] * (x[2] \div g), (x[2] \div g) * y[2])
RSub(x, y) == RAdd(x, <<-y[1], y[2]>>)

\* product, cross-reduced before multiplying to keep the integers small
RMul(x, y) ==
  LET g1 == GCD(Abs(x[1]), y[2])
      g2 == GCD(Abs(y[1]), x[2])
      a == IF g1 = 0 THEN 0 ELSE x[1] \div g1
      d == IF g1 = 0 THEN 1 ELSE y[2] \div g1
      c == IF g2 = 0 THEN 0 ELSE y[1] \div g2
      b == IF g2 = 0 THEN 1 ELSE x[2] \div g2
  IN  Norm(a * c, b * d)

\* quotient x / y for y # 0
RDiv(x, y) ==
  IF y[1] > 0 THEN RMul(x, <<y[2], y[1]>>) ELSE RMul(x, <<-y[2], -y[1]>>)

\* a/b < c/d for b, d > 0, by comparing integer parts and then the reciprocals
\* of the fractional parts, so that no product is formed
RECURSIVE FracLess(_, _, _, _)
FracLess(a, b, c, d) ==
  LET q1 == a \div b
      q2 == c \div d
      r1 == a % b
      r2 == c % d
  IN  IF q1 # q2 THEN q1 < q2
      ELSE IF r2 = 0 THEN FALSE
      ELSE IF r1 = 0 THEN TRUE
      ELSE FracLess(d, r2, b, r1)

RLt(x, y) == FracLess(x[1], x[2], y[1], y[2])
RLe(x, y) == ~FracLess(y[1], y[2], x[1], x[2])
RGt(x, y) == RLt(y, x)
RGe(x, y) == RLe(y, x)
RMax(x, y) == IF RLt(x, y) THEN y ELSE x

\* x * f > t for x > 0 and t >= 0, decided as t / x < f: an entry that is
\* dropped needs no product
ProductExceeds(x, f, t) == RLt(RDiv(t, x), f)

\* Math.round: the integer nearest to x, ties towards +infinity
MathRound(x) ==
  LET q == x[1] \div x[2]
      r == x[1] % x[2]
  IN  IF r >= x[2] - r THEN q + 1 ELSE q

\* <<q, r>> with k * n = q * d + r and 0 <= r < d, for k >= 0 and d > 0,
\* computed by halving k so that no intermediate product is formed
RECURSIVE MulDiv(_, _, _)
MulDiv(k, n, d) ==
  IF k = 0 THEN <<0, 0>>
  ELSE LET h == MulDiv(k \div 2, n, d)
           r == 2 * h[2] + (IF k % 2 = 1 THEN n % d ELSE 0)
           q == 2 * h[1] + (IF k % 2 = 1 THEN n \div d ELSE 0)
       IN  <<q + (r \div d), r % d>>

\* Math.round(k * x) for an integer k >= 0
RoundTimes(k, x) ==
  LET m == MulDiv(k, x[1], x[2])
  IN  IF m[2] >= x[2] - m[2] THEN m[1] + 1 ELSE m[1]

\* Number(x.toFixed(4)): the nearest multiple of 0.0001, ties away from zero
ToFixed4(x) ==
  IF x[1] < 0 THEN Norm(-RoundTimes(10000, <<-x[1], x[2]>>), 10000)
  ELSE Norm(RoundTimes(10000, x), 10000)

Zero == <<0, 1>>
Hundred == <<100, 1>>

(***************************************************************************)
(* Currency conversion                                                     *)
(***************************************************************************)
DEFAULT_PRIMARY_EXCHANGE_RATES ==
  [usdGbp |-> Frac(79, 100), usdEur |-> Frac(92, 100)]

\* the six directed rates, keyed by <<from, to>>
deriveAllExchangeRates(primaryRates) ==
  LET usdGbp == primaryRates.usdGbp
      usdEur == primaryRates.usdEur
      gbpUsd == IF RGt(usdGbp, Zero) THEN RDiv(Num(1), usdGbp) ELSE Zero
      gbpEur == IF RGt(usdGbp, Zero) THEN RDiv(usdEur, usdGbp) ELSE Zero
      eurGbp == IF RGt(usdEur, Zero) THEN RDiv(usdGbp, usdEur) ELSE Zero
      eurUsd == IF RGt(usdEur, Zero) THEN RDiv(Num(1), usdEur) ELSE Zero
  IN  (<<"USD", "GBP">> :> usdGbp) @@ (<<"GBP", "USD">> :> ToFixed4(gbpUsd)) @@
      (<<"USD", "EUR">> :> usdEur) @@ (<<"EUR", "USD">> :> ToFixed4(eurUsd)) @@
      (<<"GBP", "EUR">> :> ToFixed4(gbpEur)) @@ (<<"EUR", "GBP">> :> ToFixed4(eurGbp))

\* amount * (rate || 1): a rate of 0 is falsy and counts as 1
convertCurrency(amount, fromCurrency, toCurrency, rates) ==
  IF fromCurrency = toCurrency THEN amount
  ELSE LET rate == rates[<<fromCurrency, toCurrency>>]
       IN  RMul(amount, IF rate = Zero THEN Num(1) ELSE rate)

(***************************************************************************)
(* Dilution engine                                                         *)
(***************************************************************************)
TotalShares == 1000000

\* the threshold 0.01 (per cent) under which a diluted entry is dropped
MaterialityFloor == Frac(1, 100)

getInitialCapTable(founderName) ==
  << [name |-> founderName, shares |-> TotalShares, percentage |-> Hundred] >>

\* DiluteShareholder scaling the shares but leaving the percentage as it was
DiluteSharesOnly(shareholder, dilutionFactor) ==
  [name |-> shareholder.name,
   shares |-> RoundTimes(shareholder.shares, dilutionFactor),
   percentage |-> shareholder.percentage]

\* one existing entry after dilution by dilutionFactor
DiluteShareholder(shareholder, dilutionFactor) ==
  [name |-> shareholder.name,
   shares |-> RoundTimes(shareholder.shares, dilutionFactor),
   percentage |-> RMul(shareholder.percentage, dilutionFactor)]

\* the entry appended for a new holder of pct per cent
NewEntry(name, pct) ==
  [name |-> name,
   shares |-> RoundTimes(TotalShares, RDiv(pct, Hundred)),
   percentage |-> pct]

\* DiluteAndPrune keeping an entry whose percentage is exactly 0.01 (>= for >)
RECURSIVE DiluteAndPruneInclusive(_, _)
DiluteAndPruneInclusive(previousCapTable, dilutionFactor) ==
  IF previousCapTable = <<>> THEN <<>>
  ELSE LET shareholder == Head(previousCapTable)
           rest == DiluteAndPruneInclusive(Tail(previousCapTable), dilutionFactor)
       IN  IF RLe(RDiv(MaterialityFloor, shareholder.percentage), dilutionFactor)
           THEN <<DiluteShareholder(shareholder, dilutionFactor)>> \o rest
           ELSE rest

\* previousCapTable.forEach: push the diluted entry when its percentage > 0.01
RECURSIVE DiluteAndPrune(_, _)
DiluteAndPrune(previousCapTable, dilutionFactor) ==
  IF previousCapTable = <<>> THEN <<>>
  ELSE LET shareholder == Head(previousCapTable)
           rest == DiluteAndPrune(Tail(previousCapTable), dilutionFactor)
       IN  IF ProductExceeds(shareholder.percentage, dilutionFactor, MaterialityFloor)
           THEN <<DiluteShareholder(shareholder, dilutionFactor)>> \o rest
           ELSE rest

\* FundingIsNoOp without the test newInvestorPercentage >= 100
FundingIsNoOpNoUpper(round) ==
  \/ RLe(round.postMoneyValuation, Zero)
  \/ RLe(round.investmentAmount, Zero)
  \/ RLe(RMul(RDiv(round.investmentAmount, round.postMoneyValuation), Hundred), Zero)

\* FundingIsNoOp without the tests investmentAmount <= 0 and
\* newInvestorPercentage <= 0
FundingIsNoOpNoLower(round) ==
  \/ RLe(round.postMoneyValuation, Zero)
  \/ RGe(RMul(RDiv(round.investmentAmount, round.postMoneyValuation), Hundred), Hundred)

\* the early returns of calculateCapTableForFundingRound
FundingIsNoOp(round) ==
  \/ RLe(round.postMoneyValuation, Zero)
  \/ RLe(round.investmentAmount, Zero)
  \/ LET newInvestorPercentage ==
           RMul(RDiv(round.investmentAmount, round.postMoneyValuation), Hundred)
     IN  RLe(newInvestorPercentage, Zero) \/ RGe(newInvestorPercentage, Hundred)

calculateCapTableForFundingRound(round, previousCapTable) ==
  IF FundingIsNoOp(round) THEN previousCapTable
  ELSE LET newInvestorPercentage ==
             RMul(RDiv(round.investmentAmount, round.postMoneyValuation), Hundred)
           dilutionFactor == RDiv(RSub(Hundred, newInvestorPercentage), Hundred)
       IN  DiluteAndPrune(previousCapTable, dilutionFactor)
             \o <<NewEntry(round.newInvestorName, newInvestorPercentage)>>

\* calculateCapTableForOptionPool dropping the entries that fall to the floor,
\* as the funding round does
OptionPoolWithFloor(pool, previousCapTable) ==
  IF RLe(pool.percentage, Zero) \/ RGe(pool.percentage, Hundred) THEN previousCapTable
  ELSE DiluteAndPrune(previousCapTable, RDiv(RSub(Hundred, pool.percentage), Hundred))
         \o <<NewEntry(pool.name, pool.percentage)>>

calculateCapTableForOptionPool(pool, previousCapTable) ==
  LET poolPercentage == pool.percentage IN
  IF RLe(poolPercentage, Zero) \/ RGe(poolPercentage, Hundred) THEN previousCapTable
  ELSE LET dilutionFactor == RDiv(RSub(Hundred, poolPercentage), Hundred)
       IN  [i \in 1..Len(previousCapTable) |->
              DiluteShareholder(previousCapTable[i], dilutionFactor)]
             \o <<NewEntry(pool.name, poolPercentage)>>

(***************************************************************************)
(* Valuation resolver and recalculateAllEvents                             *)
(***************************************************************************)
MaxIterations == 10

\* [...updatedEvents].sort((a, b) => a.order - b.order): a stable sort
RECURSIVE InsertByOrder(_, _)
InsertByOrder(sorted, e) ==
  IF sorted = <<>> THEN <<e>>
  ELSE IF Head(sorted).order <= e.order
       THEN <<Head(sorted)>> \o InsertByOrder(Tail(sorted), e)
       ELSE <<e>> \o sorted

\* SortByOrder that keeps the caller's listing order
SortByOrderSkipped(events) == events

RECURSIVE SortByOrder(_)
SortByOrder(events) ==
  IF events = <<>> THEN <<>>
  ELSE InsertByOrder(SortByOrder(SubSeq(events, 1, Len(events) - 1)),
                     events[Len(events)])

\* SeedValuation taking the manual valuation whatever the valuation source
SeedValuationIgnoringSource(round) == round.manualValuation

\* SeedValuation that keeps the valuation stored on a reference round
SeedValuationFromStored(round) ==
  IF round.valuationSource = "manual" THEN round.manualValuation
  ELSE round.calculatedValuation

\* the value a round gets in the first pass
SeedValuation(round) ==
  IF round.valuationSource = "manual" THEN round.manualValuation ELSE Zero

\* DeriveValuations without Math.max(0, ...) on the pre-money of a post-money
\* round
DeriveValuationsUnclamped(round, calculatedValuation) ==
  IF round.valuationType = "pre-money"
  THEN [preMoneyValuation |-> calculatedValuation,
        postMoneyValuation |-> RAdd(calculatedValuation, round.investmentAmount)]
  ELSE [postMoneyValuation |-> calculatedValuation,
        preMoneyValuation |-> RSub(calculatedValuation, round.investmentAmount)]

\* pre- and post-money of a round from its calculated valuation
DeriveValuations(round, calculatedValuation) ==
  IF round.valuationType = "pre-money"
  THEN [preMoneyValuation |-> calculatedValuation,
        postMoneyValuation |-> RAdd(calculatedValuation, round.investmentAmount)]
  ELSE [postMoneyValuation |-> calculatedValuation,
        preMoneyValuation |->
          RMax(Zero, RSub(calculatedValuation, round.investmentAmount))]

\* { ...round, calculatedValuation, preMoneyValuation, postMoneyValuation, capTable: [] }
WithValuation(round, calculatedValuation) ==
  LET v == DeriveValuations(round, calculatedValuation)
  IN  [round EXCEPT !.calculatedValuation = calculatedValuation,
                    !.preMoneyValuation = v.preMoneyValuation,
                    !.postMoneyValuation = v.postMoneyValuation,
                    !.capTable = <<>>]

FirstPass(sortedEvents) ==
  [i \in 1..Len(sortedEvents) |->
     IF sortedEvents[i].type = "funding"
     THEN WithValuation(sortedEvents[i], SeedValuation(sortedEvents[i]))
     ELSE sortedEvents[i]]

\* tempResults.find((e) => e.id === id && e.type === "funding"): index, 0 if none
FindFunding(tempResults, id) ==
  LET hits == {j \in 1..Len(tempResults) :
                 tempResults[j].id = id /\ tempResults[j].type = "funding"}
  IN  IF hits = {} THEN 0 ELSE CHOOSE j \in hits : \A k \in hits : j <= k

\* the test the second pass applies to the round a reference names
TargetIsCalculated(referenceRound) ==
  \/ RGt(referenceRound.preMoneyValuation, Zero)
  \/ RGt(referenceRound.postMoneyValuation, Zero)

\* the valuation of the referenced round that the referencing round reads
ReferenceValuation(round, referenceRound) ==
  IF round.valuationType = "pre-money"
  THEN referenceRound.preMoneyValuation
  ELSE referenceRound.postMoneyValuation

\* the valuation of a reference round from the valuation it reads
DiscountedValuation(round, referenceRound, referenceValuation, rates) ==
  RMul(convertCurrency(referenceValuation, referenceRound.currency, round.currency, rates),
       RDiv(RSub(Hundred, round.discountPercentage), Hundred))

\* the body of the for loop of the second pass at index i
ResolveAt(tempResults, i, hasUnresolvedReferences, rates) ==
  LET round == tempResults[i]
      same == [tempResults |-> tempResults,
               hasUnresolvedReferences |-> hasUnresolvedReferences]
  IN
  IF round.type # "funding" THEN same
  ELSE IF ~(round.valuationSource = "reference" /\ round.calculatedValuation = Zero)
  THEN same
  ELSE LET j == FindFunding(tempResults, round.referenceRoundId) IN
       IF j # 0 /\ TargetIsCalculated(tempResults[j])
       THEN LET referenceValuation == ReferenceValuation(round, tempResults[j]) IN
            IF RGt(referenceValuation, Zero)
            THEN [same EXCEPT !.tempResults[i] =
                    WithValuation(round,
                      DiscountedValuation(round, tempResults[j], referenceValuation, rates))]
            ELSE same
       ELSE [same EXCEPT !.hasUnresolvedReferences = TRUE]

\* one pass of the for loop, from index i on
RECURSIVE ResolvePass(_, _, _, _)
ResolvePass(tempResults, i, hasUnresolvedReferences, rates) ==
  IF i > Len(tempResults)
  THEN [tempResults |-> tempResults, hasUnresolvedReferences |-> hasUnresolvedReferences]
  ELSE LET r == ResolveAt(tempResults, i, hasUnresolvedReferences, rates)
       IN  ResolvePass(r.tempResults, i + 1, r.hasUnresolvedReferences, rates)

\* while (hasUnresolvedReferences && maxIterations > 0): the result and the passes run
RECURSIVE ResolveLoop(_, _, _, _, _)
ResolveLoop(tempResults, hasUnresolvedReferences, maxIterations, passes, rates) ==
  IF hasUnresolvedReferences /\ maxIterations > 0
  THEN LET r == ResolvePass(tempResults, 1, FALSE, rates)
       IN  ResolveLoop(r.tempResults, r.hasUnresolvedReferences,
                       maxIterations - 1, passes + 1, rates)
  ELSE [tempResults |-> tempResults, passes |-> passes]

\* SecondPass with a budget of one pass more (maxIterations >= 0 for > 0)
SecondPassOneMore(tempResults, rates) ==
  ResolveLoop(tempResults, TRUE, MaxIterations + 1, 0, rates)

SecondPass(tempResults, rates) ==
  ResolveLoop(tempResults, TRUE, MaxIterations, 0, rates)

\* the cap table of one event from the cap table before it
CapTableAfter(event, currentCapTable) ==
  IF event.type = "funding"
  THEN calculateCapTableForFundingRound(event, currentCapTable)
  ELSE calculateCapTableForOptionPool(event, currentCapTable)

\* ThirdPass diluting every event from the same table instead of the table of
\* the event before it
ThirdPassUnthreaded(tempResults, currentCapTable) ==
  [i \in 1..Len(tempResults) |->
     [tempResults[i] EXCEPT !.capTable = CapTableAfter(tempResults[i], currentCapTable)]]

\* the third pass: the cap tables in order, from currentCapTable on
RECURSIVE ThirdPass(_, _)
ThirdPass(tempResults, currentCapTable) ==
  IF tempResults = <<>> THEN <<>>
  ELSE LET capTable == CapTableAfter(Head(tempResults), currentCapTable)
       IN  <<[Head(tempResults) EXCEPT !.capTable = capTable]>>
             \o ThirdPass(Tail(tempResults), capTable)

\* recalculateAllEvents whose third pass goes on from the cap table stored on
\* the last event instead of starting from the founders' table
recalculateFromStoredTable(updatedEvents, founder, rates) ==
  LET sortedEvents == SortByOrder(updatedEvents)
      tempResults == SecondPass(FirstPass(sortedEvents), rates).tempResults
      n == Len(sortedEvents)
  IN  ThirdPass(tempResults,
                IF n > 0 /\ sortedEvents[n].capTable # <<>>
                THEN sortedEvents[n].capTable
                ELSE getInitialCapTable(founder))

recalculateAllEvents(updatedEvents, founderName, rates) ==
  LET sortedEvents == SortByOrder(updatedEvents)
      tempResults == SecondPass(FirstPass(sortedEvents), rates).tempResults
  IN  ThirdPass(tempResults, getInitialCapTable(founderName))

(***************************************************************************)
(* State of the component                                                  *)
(***************************************************************************)
VARIABLES
  comparisonMode,        \* useState(false)
  founderName,           \* founderNameA, founderNameB
  events,                \* eventsA, eventsB
  primaryExchangeRates,  \* the two primary rates
  allExchangeRates,      \* the six derived rates
  now,                   \* the value Date.now() returns
  op,                    \* the handler that ran last, with its arguments
  loaded,                \* the event lists as they were handed to the engine
  pending                \* the useEffect callbacks whose dependencies changed

vars == <<comparisonMode, founderName, events, primaryExchangeRates,
          allExchangeRates, now, op, loaded, pending>>

Models == {"A", "B"}

\* no useEffect callback is due: no dependency changed in the last render
NoEffect == [rates |-> FALSE, recalculate |-> FALSE]
Founders == <<"Founders", 0>>
EmptyId == <<>>

\* bounds of the model
MaxEvents == 3
MaxShuffled == 2

\* a funding round as the handlers and the loader build it
FundingRound(id, name, investor, order, currency, investmentAmount, valuationType, valuationSource, manualValuation, referenceRoundId, discountPercentage) ==
  [id |-> id, type |-> "funding", name |-> name, currency |-> currency,
   investmentAmount |-> investmentAmount, valuationType |-> valuationType,
   valuationSource |-> valuationSource, manualValuation |-> manualValuation,
   referenceRoundId |-> referenceRoundId, discountPercentage |-> discountPercentage,
   calculatedValuation |-> Zero, preMoneyValuation |-> Zero,
   postMoneyValuation |-> Zero, newInvestorName |-> investor,
   capTable |-> <<>>, order |-> order]

OptionPool(id, name, percentage, order) ==
  [id |-> id, type |-> "option-pool", name |-> name, percentage |-> percentage,
   capTable |-> <<>>, order |-> order]

(***************************************************************************)
(* The engine on arbitrary event lists: the lists a saved state can hold   *)
(* (loadState hands any parsed list to recalculateAllEvents), and the      *)
(* effect that recalculates the stored list.                               *)
(***************************************************************************)
Thousand == 1000
Million == 1000000

\* primary rates of the engine runs: USD-GBP 0.8, USD-EUR 0.5
EnginePrimaryRates == [usdGbp |-> Frac(4, 5), usdEur |-> Frac(1, 2)]

\* input shapes of one event; ref is the position of the referenced event
\* (0: the empty id; a position beyond the list: an id no event has)
ManualShapes ==
  [type : {"funding"}, valuationSource : {"manual"},
   valuationType : {"pre-money", "post-money"},
   investmentAmount : {Num(2 * Million)},
   manualValuation : {Zero, Num(8 * Million)},
   ref : {0}, discountPercentage : {Zero}, currency : {"USD"}]
  \cup
  { [type |-> "funding", valuationSource |-> "manual", valuationType |-> "pre-money",
     investmentAmount |-> Zero, manualValuation |-> Num(8 * Million),
     ref |-> 0, discountPercentage |-> Zero, currency |-> "USD"],
    [type |-> "funding", valuationSource |-> "manual", valuationType |-> "post-money",
     investmentAmount |-> Num(9999 * Thousand), manualValuation |-> Num(10 * Million),
     ref |-> 0, discountPercentage |-> Zero, currency |-> "USD"],
    [type |-> "funding", valuationSource |-> "manual", valuationType |-> "post-money",
     investmentAmount |-> Num(2 * Million), manualValuation |-> Num(10 * Million),
     ref |-> 0, discountPercentage |-> Zero, currency |-> "GBP"] }

ReferenceShapes ==
  [type : {"funding"}, valuationSource : {"reference"},
   valuationType : {"pre-money", "post-money"},
   investmentAmount : {Num(2 * Million)},
   manualValuation : {Zero},
   ref : 0..MaxEvents, discountPercentage : {Zero}, currency : {"USD"}]
  \cup
  [type : {"funding"}, valuationSource : {"reference"},
   valuationType : {"pre-money"},
   investmentAmount : {Zero},
   manualValuation : {Zero},
   ref : 0..MaxEvents, discountPercentage : {Zero}, currency : {"USD"}]
  \cup
  [type : {"funding"}, valuationSource : {"reference"},
   valuationType : {"pre-money", "post-money"},
   investmentAmount : {Num(2 * Million)},
   manualValuation : {Num(8 * Million)},
   ref : 1..MaxEvents, discountPercentage : {Num(20)}, currency : {"USD"}]

PoolShapes ==
  [type : {"option-pool"}, percentage : {Zero, Num(10), Num(99), Hundred}]

Shapes == ManualShapes \cup ReferenceShapes \cup PoolShapes

\* the order keys of a list of n events, by position: every assignment of
\* keys (any input order, equal keys too) for the short lists, ascending keys
\* for the longer ones
Arrangements(n) ==
  IF n <= MaxShuffled THEN [1..n -> 1..n] ELSE { [i \in 1..n |-> i] }

IdAt(shapes, i) ==
  IF i = 0 THEN EmptyId
  ELSE IF i <= Len(shapes) /\ shapes[i].type = "option-pool" THEN <<"pool", i, "A">>
  ELSE <<"round", i, "A">>

EventOf(shapes, i, order) ==
  LET s == shapes[i] IN
  IF s.type = "funding"
  THEN FundingRound(IdAt(shapes, i), <<"Series", i>>, <<"Series Investor", i>>, order,
                    s.currency, s.investmentAmount, s.valuationType, s.valuationSource,
                    s.manualValuation, IdAt(shapes, s.ref), s.discountPercentage)
  ELSE OptionPool(IdAt(shapes, i), <<"Option Pool", i>>, s.percentage, order)

EngineInit ==
  /\ comparisonMode = FALSE
  /\ founderName = [m \in Models |-> Founders]
  /\ \E n \in 0..MaxEvents : \E shapes \in [1..n -> Shapes] : \E arr \in Arrangements(n) :
       events = [m \in Models |->
                   IF m = "A" THEN [i \in 1..n |-> EventOf(shapes, i, arr[i])] ELSE <<>>]
  /\ primaryExchangeRates = EnginePrimaryRates
  /\ allExchangeRates = deriveAllExchangeRates(EnginePrimaryRates)
  /\ now = 0
  /\ op = [name |-> "input"]
  /\ loaded = events
  /\ pending = NoEffect

\* setEventsA((prevEvents) => recalculateAllEvents(prevEvents, founderNameA))
Recalculate ==
  /\ events' = [events EXCEPT !["A"] =
                  recalculateAllEvents(events["A"], founderName["A"], allExchangeRates)]
  /\ op' = [name |-> "recalculate",
            passes |-> SecondPass(FirstPass(SortByOrder(events["A"])),
                                  allExchangeRates).passes]
  /\ UNCHANGED <<comparisonMode, founderName, primaryExchangeRates,
                 allExchangeRates, now, loaded, pending>>

EngineNext == Recalculate

SpecEngine == EngineInit /\ [][EngineNext]_vars

(***************************************************************************)
(* The handlers that edit the event list of a model                        *)
(***************************************************************************)
MaxNow == 3
MaxUpdates == 3

\* insertAfterOrder === undefined
Undefined == -1

\* the handler that ran last: its name and arguments, and for removeEvent the
\* number of rounds whose reference it cleared; updates counts the
\* updateEvent calls made so far
Ran(name, m, id, after, cleared, updates) ==
  [name |-> name, model |-> m, id |-> id, after |-> after, cleared |-> cleared,
   updates |-> updates]

Init ==
  /\ comparisonMode = FALSE
  /\ founderName = [m \in Models |-> Founders]
  /\ events = [m \in Models |-> <<>>]
  /\ primaryExchangeRates = DEFAULT_PRIMARY_EXCHANGE_RATES
  /\ allExchangeRates = deriveAllExchangeRates(DEFAULT_PRIMARY_EXCHANGE_RATES)
  /\ now = 0
  /\ op = Ran("none", "A", EmptyId, Undefined, 0, 0)
  /\ loaded = events
  /\ pending = NoEffect

RECURSIVE MaxOf(_)
MaxOf(S) ==
  LET x == CHOOSE y \in S : TRUE
  IN  IF S = {x} THEN x
      ELSE LET m == MaxOf(S \ {x}) IN IF x > m THEN x ELSE m

\* getNextOrder with events.length + 1 for Math.max(...orders) + 1
getNextOrderByLength(evs) == Len(evs) + 1

getNextOrder(evs) ==
  IF Len(evs) > 0 THEN MaxOf({evs[i].order : i \in 1..Len(evs)}) + 1 ELSE 1

\* ShiftOrders moving the event at insertAfterOrder too (>= for >)
ShiftOrdersInclusive(prevEvents, insertAfterOrder) ==
  [i \in 1..Len(prevEvents) |->
     IF prevEvents[i].order >= insertAfterOrder
     THEN [prevEvents[i] EXCEPT !.order = prevEvents[i].order + 1]
     ELSE prevEvents[i]]

\* prevEvents.map: the events after insertAfterOrder move up by one
ShiftOrders(prevEvents, insertAfterOrder) ==
  [i \in 1..Len(prevEvents) |->
     IF prevEvents[i].order > insertAfterOrder
     THEN [prevEvents[i] EXCEPT !.order = prevEvents[i].order + 1]
     ELSE prevEvents[i]]

CountType(evs, type) == Cardinality({i \in 1..Len(evs) : evs[i].type = type})

\* the round addRound builds
NewRound(m, evs, newOrder, time) ==
  LET roundNumber == CountType(evs, "funding") + 1
  IN  FundingRound(<<"round", time, m>>, <<"Series", roundNumber>>,
                   <<"Series Investor", roundNumber>>, newOrder, "USD", Zero,
                   "pre-money", "manual", Zero, EmptyId, Zero)

\* the pool addOptionPool builds
NewPool(m, evs, newOrder, time) ==
  OptionPool(<<"pool", time, m>>, <<"Option Pool", CountType(evs, "option-pool") + 1>>,
             Num(10), newOrder)

\* the order values the insertion points of a model offer: 0 before the
\* first event, and the order of every event but the last
InsertionPoints(evs) ==
  LET sorted == SortByOrder(evs)
  IN  IF Len(sorted) = 0 THEN {}
      ELSE {0} \cup {sorted[i].order : i \in 1..(Len(sorted) - 1)}

\* Date.now() at the call: the handlers of a run are called at least a
\* millisecond apart
Clock == {t \in {now + 1} : t <= MaxNow}

addRound(m, insertAfterOrder, time) ==
  /\ Len(events[m]) < MaxEvents
  /\ IF insertAfterOrder # Undefined
     THEN events' = [events EXCEPT ![m] =
               recalculateAllEvents(
                 ShiftOrders(events[m], insertAfterOrder)
                   \o <<NewRound(m, events[m], insertAfterOrder + 1, time)>>,
                 founderName[m], allExchangeRates)]
     ELSE events' = [events EXCEPT ![m] =
               events[m] \o <<NewRound(m, events[m], getNextOrder(events[m]), time)>>]
  /\ now' = time
  /\ op' = Ran("addRound", m, <<"round", time, m>>, insertAfterOrder, 0, op.updates)
  /\ UNCHANGED <<comparisonMode, founderName, primaryExchangeRates,
                 allExchangeRates, loaded, pending>>

addOptionPool(m, insertAfterOrder, time) ==
  /\ Len(events[m]) < MaxEvents
  /\ IF insertAfterOrder # Undefined
     THEN events' = [events EXCEPT ![m] =
               recalculateAllEvents(
                 ShiftOrders(events[m], insertAfterOrder)
                   \o <<NewPool(m, events[m], insertAfterOrder + 1, time)>>,
                 founderName[m], allExchangeRates)]
     ELSE events' = [events EXCEPT ![m] =
               recalculateAllEvents(
                 events[m] \o <<NewPool(m, events[m], getNextOrder(events[m]), time)>>,
                 founderName[m], allExchangeRates)]
  /\ now' = time
  /\ op' = Ran("addOptionPool", m, <<"pool", time, m>>, insertAfterOrder, 0, op.updates)
  /\ UNCHANGED <<comparisonMode, founderName, primaryExchangeRates,
                 allExchangeRates, loaded, pending>>

\* the ids getAvailableReferenceRounds offers to the round currentEventId
getAvailableReferenceRounds(evs, currentEventId) ==
  LET found == {i \in 1..Len(evs) : evs[i].id = currentEventId}
  IN  IF found = {} THEN {}
      ELSE LET currentEvent == evs[CHOOSE i \in found : \A k \in found : i <= k]
           IN  {evs[i].id : i \in
                  {k \in 1..Len(evs) :
                     /\ evs[k].type = "funding"
                     /\ evs[k].order > currentEvent.order
                     /\ RGt(evs[k].postMoneyValuation, Zero)}}

\* prevEvents.map: { ...event, [field]: value } for the events with the id
SetField(prevEvents, eventId, field, value) ==
  [i \in 1..Len(prevEvents) |->
     IF prevEvents[i].id = eventId
     THEN [prevEvents[i] EXCEPT ![field] = value]
     ELSE prevEvents[i]]

\* the field changes the form of an event offers
FieldChoices(evs, e) ==
  IF e.type = "funding"
  THEN ({"investmentAmount"} \X {Zero, Num(2 * Million)})
       \cup ({"manualValuation"} \X {Zero, Num(8 * Million)})
       \cup ({"valuationSource"} \X {"manual", "reference"})
       \cup ({"referenceRoundId"} \X getAvailableReferenceRounds(evs, e.id))
  ELSE {"percentage"} \X {Num(10), Num(20)}

updateEvent(m, eventId, field, value) ==
  /\ op.updates < MaxUpdates
  /\ events' = [events EXCEPT ![m] =
       recalculateAllEvents(SetField(events[m], eventId, field, value),
                            founderName[m], allExchangeRates)]
  /\ op' = Ran("updateEvent", m, eventId, Undefined, 0, op.updates + 1)
  /\ UNCHANGED <<comparisonMode, founderName, primaryExchangeRates,
                 allExchangeRates, now, loaded, pending>>

\* CleanReferences clearing referenceRoundId but leaving valuationSource
CleanReferencesKeepSource(filteredEvents, eventId) ==
  [i \in 1..Len(filteredEvents) |->
     IF filteredEvents[i].type = "funding"
        /\ filteredEvents[i].referenceRoundId = eventId
     THEN [filteredEvents[i] EXCEPT !.referenceRoundId = EmptyId]
     ELSE filteredEvents[i]]

\* filteredEvents.map: the rounds that named the removed event
CleanReferences(filteredEvents, eventId) ==
  [i \in 1..Len(filteredEvents) |->
     IF filteredEvents[i].type = "funding"
        /\ filteredEvents[i].referenceRoundId = eventId
     THEN [filteredEvents[i] EXCEPT !.referenceRoundId = EmptyId,
                                    !.valuationSource = "manual"]
     ELSE filteredEvents[i]]

\* prevEvents.filter((event) => event.id !== eventId)
WithoutEvent(prevEvents, eventId) ==
  SelectSeq(prevEvents, LAMBDA e : e.id # eventId)

\* the rounds of a list that name eventId and are not removed with it
Referrers(evs, eventId) ==
  {i \in 1..Len(evs) :
     /\ evs[i].id # eventId
     /\ evs[i].type = "funding"
     /\ evs[i].referenceRoundId = eventId}

removeEvent(m, eventId) ==
  /\ events' = [events EXCEPT ![m] =
       recalculateAllEvents(CleanReferences(WithoutEvent(events[m], eventId), eventId),
                            founderName[m], allExchangeRates)]
  /\ op' = Ran("removeEvent", m, eventId, Undefined,
               Cardinality(Referrers(events[m], eventId)), op.updates)
  /\ UNCHANGED <<comparisonMode, founderName, primaryExchangeRates,
                 allExchangeRates, now, loaded, pending>>

\* the models whose forms are shown (model B only in comparison mode)
Shown == IF comparisonMode THEN Models ELSE {"A"}

Next ==
  \/ \E m \in Shown : \E time \in Clock :
       \E k \in {Undefined} \cup InsertionPoints(events[m]) : addRound(m, k, time)
  \/ \E m \in Shown : \E time \in Clock :
       \E k \in {Undefined} \cup InsertionPoints(events[m]) : addOptionPool(m, k, time)
  \/ \E m \in Shown : \E i \in 1..Len(events[m]) :
       \E c \in FieldChoices(events[m], events[m][i]) :
         /\ events[m][i][c[1]] # c[2]
         /\ updateEvent(m, events[m][i].id, c[1], c[2])
  \/ \E m \in Shown : \E i \in 1..Len(events[m]) : removeEvent(m, events[m][i].id)

Spec == Init /\ [][Next]_vars

(***************************************************************************)
(* The same handlers under a clock that may return the same millisecond    *)
(* twice: Date.now() is non-decreasing, and two calls of addRound (or of   *)
(* addOptionPool) on a model within one millisecond build the same id.     *)
(***************************************************************************)
MaxTick == 2

\* Date.now() at the call: a later millisecond, or the millisecond of the
\* call before when that call was an addRound or addOptionPool too
SameMsClock ==
  {t \in {now + 1} : t <= MaxTick}
    \cup (IF op.name \in {"addRound", "addOptionPool"} THEN {now} ELSE {})

NextSameMs ==
  \/ \E m \in Shown : \E time \in SameMsClock :
       \E k \in {Undefined} \cup InsertionPoints(events[m]) : addRound(m, k, time)
  \/ \E m \in Shown : \E time \in SameMsClock :
       \E k \in {Undefined} \cup InsertionPoints(events[m]) : addOptionPool(m, k, time)
  \/ \E m \in Shown : \E i \in 1..Len(events[m]) :
       \E c \in FieldChoices(events[m], events[m][i]) :
         /\ events[m][i][c[1]] # c[2]
         /\ updateEvent(m, events[m][i].id, c[1], c[2])
  \/ \E m \in Shown : \E i \in 1..Len(events[m]) : removeEvent(m, events[m][i].id)

SpecSameMs == Init /\ [][NextSameMs]_vars

(***************************************************************************)
(* The effects React runs after a render                                   *)
(***************************************************************************)
\* the handlers run between renders, after the effects of the render before
Idle == pending = NoEffect

\* RunEffects in which the table the first effect sets does not make the
\* second effect due again
RunEffectsOnce ==
  /\ pending # NoEffect
  /\ allExchangeRates' =
       IF pending.rates THEN deriveAllExchangeRates(primaryExchangeRates)
       ELSE allExchangeRates
  /\ events' =
       IF pending.recalculate
       THEN [m \in Models |->
               IF (m = "A" \/ comparisonMode) /\ Len(events[m]) > 0
               THEN recalculateAllEvents(events[m], founderName[m], allExchangeRates)
               ELSE events[m]]
       ELSE events
  /\ pending' = NoEffect
  /\ op' = [op EXCEPT !.name = "useEffect"]
  /\ UNCHANGED <<comparisonMode, founderName, primaryExchangeRates, now, loaded>>

\* the effects of one render, in the order of their declaration and with the
\* state of that render: the first derives the six rates when the primary rates
\* changed; the second recalculates the models when the six rates or a founder
\* name changed.  The table the first one sets is a new object, so the second
\* one is due again after the next render.
RunEffects ==
  /\ pending # NoEffect
  /\ allExchangeRates' =
       IF pending.rates THEN deriveAllExchangeRates(primaryExchangeRates)
       ELSE allExchangeRates
  /\ events' =
       IF pending.recalculate
       THEN [m \in Models |->
               IF (m = "A" \/ comparisonMode) /\ Len(events[m]) > 0
               THEN recalculateAllEvents(events[m], founderName[m], allExchangeRates)
               ELSE events[m]]
       ELSE events
  /\ pending' = [rates |-> FALSE, recalculate |-> pending.rates]
  /\ op' = [op EXCEPT !.name = "useEffect"]
  /\ UNCHANGED <<comparisonMode, founderName, primaryExchangeRates, now, loaded>>

(***************************************************************************)
(* The exchange-rate settings and the conversion                           *)
(***************************************************************************)
Currencies == {"USD", "GBP", "EUR"}

\* values typed into the two rate inputs (type="number", no minimum)
RateChoices == {Num(-1), Zero, Frac(1, 2), Frac(79, 100), Num(25000)}

\* amounts handed to convertCurrency
AmountChoices == {Num(1), Num(1000)}

\* setPrimaryExchangeRates((prev) => ({ ...prev, [key]: value })): a new object,
\* so the effect that derives the six rates is due after the render
updatePrimaryExchangeRate(key, value) ==
  /\ primaryExchangeRates' = [primaryExchangeRates EXCEPT ![key] = value]
  /\ pending' = [pending EXCEPT !.rates = TRUE]
  /\ op' = [name |-> "updatePrimaryExchangeRate", key |-> key, value |-> value,
            changed |-> primaryExchangeRates[key] # value]
  /\ UNCHANGED <<comparisonMode, founderName, events, allExchangeRates, now, loaded>>

\* one conversion under the current table, and the conversion of its result
\* back to the first currency
Convert(amount, fromCurrency, toCurrency) ==
  LET result == convertCurrency(amount, fromCurrency, toCurrency, allExchangeRates)
  IN  /\ op' = [name |-> "convertCurrency", amount |-> amount,
                fromCurrency |-> fromCurrency, toCurrency |-> toCurrency,
                result |-> result,
                back |-> convertCurrency(result, toCurrency, fromCurrency,
                                         allExchangeRates)]
      /\ UNCHANGED <<comparisonMode, founderName, events, primaryExchangeRates,
                     allExchangeRates, now, loaded, pending>>

NextCurrency ==
  \/ RunEffects
  \/ Idle /\ \E key \in {"usdGbp", "usdEur"} : \E value \in RateChoices :
       updatePrimaryExchangeRate(key, value)
  \/ Idle /\ \E amount \in AmountChoices : \E fromCurrency, toCurrency \in Currencies :
       Convert(amount, fromCurrency, toCurrency)

SpecCurrency == Init /\ [][NextCurrency]_vars

(***************************************************************************)
(* Properties of the engine                                                *)
(***************************************************************************)
Out == events["A"]
Recalculated == op.name = "recalculate"
IsFunding(e) == e.type = "funding"
IsReference(e) == e.type = "funding" /\ e.valuationSource = "reference"

\* the cap table before the event at position i of a returned list
TableBefore(list, i) ==
  IF i = 1 THEN getInitialCapTable(founderName["A"]) ELSE list[i - 1].capTable

\* the new investor's percentage of a round with a positive post-money valuation
InvestorPct(round) ==
  RMul(RDiv(round.investmentAmount, round.postMoneyValuation), Hundred)

\* C1: recalculating a list that recalculateAllEvents returned gives that list
\* again, field for field (valuations and cap tables included).
C1_Idempotent ==
  Recalculated =>
    recalculateAllEvents(Out, founderName["A"], allExchangeRates) = Out

\* a returned list that differs from its input, with a resolved reference
\* round and a cap table of three entries
C1_Witness ==
  /\ Recalculated
  /\ loaded["A"] # Out
  /\ \E i \in 1..Len(Out) : IsReference(Out[i]) /\ Out[i].calculatedValuation # Zero
  /\ \E i \in 1..Len(Out) : Len(Out[i].capTable) >= 3

\* C2: a reference round returned with a non-zero valuation has the valuation
\* of the round it names, as that round is returned (pre- or post-money by the
\* referencing round's type), converted and discounted, and its own pre- and
\* post-money derived from it.
C2_ValuationFromReturnedTarget ==
  Recalculated =>
    \A i \in 1..Len(Out) :
      (IsReference(Out[i]) /\ Out[i].calculatedValuation # Zero) =>
        LET j == FindFunding(Out, Out[i].referenceRoundId) IN
        /\ j # 0
        /\ Out[i].calculatedValuation =
             RMul(convertCurrency(IF Out[i].valuationType = "pre-money"
                                  THEN Out[j].preMoneyValuation
                                  ELSE Out[j].postMoneyValuation,
                                  Out[j].currency, Out[i].currency, allExchangeRates),
                  RDiv(RSub(Hundred, Out[i].discountPercentage), Hundred))
        /\ IF Out[i].valuationType = "pre-money"
           THEN /\ Out[i].preMoneyValuation = Out[i].calculatedValuation
                /\ Out[i].postMoneyValuation =
                     RAdd(Out[i].calculatedValuation, Out[i].investmentAmount)
           ELSE /\ Out[i].postMoneyValuation = Out[i].calculatedValuation
                /\ Out[i].preMoneyValuation =
                     RMax(Zero, RSub(Out[i].calculatedValuation, Out[i].investmentAmount))

\* the entries of a table that stay above the floor when diluted by factor f
AboveFloor(table, f) ==
  SelectSeq(table, LAMBDA sh : ProductExceeds(sh.percentage, f, Frac(1, 100)))

\* C3: a round with post-money > 0, investment > 0 and 0 < p < 100 returns the
\* previous entries in sequence, percentage and shares scaled by (100 - p)/100
\* (shares rounded), without those at or below 0.01 per cent, followed by the
\* investor's entry {name, round(p/100 * 1,000,000), p}; 2,000,000 on an
\* 8,000,000 pre-money gives 80% / 800,000 and 20% / 200,000.
C3_FundingDilution ==
  Recalculated =>
    \A i \in 1..Len(Out) :
      (/\ IsFunding(Out[i])
       /\ RGt(Out[i].postMoneyValuation, Zero)
       /\ RGt(Out[i].investmentAmount, Zero)
       /\ RGt(InvestorPct(Out[i]), Zero)
       /\ RLt(InvestorPct(Out[i]), Hundred)) =>
        LET p == InvestorPct(Out[i])
            f == RDiv(RSub(Hundred, p), Hundred)
            kept == AboveFloor(TableBefore(Out, i), f)
        IN  /\ Out[i].capTable =
                 [k \in 1..Len(kept) |->
                    [name |-> kept[k].name,
                     shares |-> RoundTimes(kept[k].shares, f),
                     percentage |-> RMul(kept[k].percentage, f)]]
                 \o << [name |-> Out[i].newInvestorName,
                        shares |-> RoundTimes(1000000, RDiv(p, Hundred)),
                        percentage |-> p] >>
            /\ (/\ i = 1
                /\ Out[i].investmentAmount = Num(2000000)
                /\ Out[i].preMoneyValuation = Num(8000000)) =>
                 Out[i].capTable =
                   << [name |-> founderName["A"], shares |-> 800000,
                       percentage |-> Num(80)],
                      [name |-> Out[i].newInvestorName, shares |-> 200000,
                       percentage |-> Num(20)] >>

\* the 2,000,000 on 8,000,000 round first, then a round that dilutes a table
\* of two entries, of which one or both fall to the floor and are dropped
C3_Witness ==
  /\ Recalculated
  /\ Len(Out) >= 2
  /\ IsFunding(Out[1])
  /\ Out[1].investmentAmount = Num(2000000)
  /\ Out[1].preMoneyValuation = Num(8000000)
  /\ Out[1].postMoneyValuation = Num(10000000)
  /\ Len(Out[1].capTable) = 2
  /\ \E i \in 2..Len(Out) :
       /\ IsFunding(Out[i])
       /\ ~FundingIsNoOp(Out[i])
       /\ Len(Out[i].capTable) <= Len(TableBefore(Out, i))

\* an event whose dilution is degenerate
Degenerate(e) ==
  IF IsFunding(e)
  THEN \/ RLe(e.postMoneyValuation, Zero)
       \/ RLe(e.investmentAmount, Zero)
       \/ RGe(InvestorPct(e), Hundred)
  ELSE RLe(e.percentage, Zero) \/ RGe(e.percentage, Hundred)

\* C4: a funding round with post-money <= 0, investment <= 0 or an investor
\* percentage >= 100, and an option pool with percentage <= 0 or >= 100, is
\* returned with the cap table of the preceding event (the founder baseline
\* when it is first).
C4_DegeneratePassThrough ==
  Recalculated =>
    \A i \in 1..Len(Out) :
      Degenerate(Out[i]) => Out[i].capTable = TableBefore(Out, i)

\* after an event that diluted the founders: a round whose investor would own
\* 100 per cent, and an option pool of 100 per cent
C4_Witness ==
  /\ Recalculated
  /\ Len(Out) = 3
  /\ Len(Out[1].capTable) = 2
  /\ \E i \in 2..3 :
       /\ IsFunding(Out[i])
       /\ RGt(Out[i].postMoneyValuation, Zero)
       /\ RGt(Out[i].investmentAmount, Zero)
       /\ RGe(InvestorPct(Out[i]), Hundred)
  /\ \E i \in 2..3 : ~IsFunding(Out[i]) /\ Out[i].percentage = Hundred
  /\ Out[3].capTable = Out[1].capTable

\* a reference round whose referenceRoundId names no funding round of the list
Dangling(list, i) ==
  IsReference(list[i]) /\ FindFunding(list, list[i].referenceRoundId) = 0

\* C5: a reference round that names no funding round of the list (the empty
\* id and the id of an option pool included) is returned with valuation 0 and
\* the cap table of the preceding event, after one recalculation and after
\* every further one.
C5_DanglingReference ==
  Recalculated =>
    \A i \in 1..Len(Out) :
      Dangling(Out, i) =>
        /\ Out[i].calculatedValuation = Zero
        /\ Out[i].capTable = TableBefore(Out, i)

\* after a diluting event: a round with an investment and a stale manual
\* valuation that names an option pool, and a round with the empty id
C5_Witness ==
  /\ Recalculated
  /\ Len(Out) = 3
  /\ Len(Out[1].capTable) = 2
  /\ \E i \in 1..3 : \E j \in 1..3 :
       /\ Dangling(Out, i)
       /\ Out[i].referenceRoundId = Out[j].id
       /\ ~IsFunding(Out[j])
       /\ RGt(Out[i].investmentAmount, Zero)
       /\ RGt(Out[i].manualValuation, Zero)
  /\ recalculateAllEvents(Out, founderName["A"], allExchangeRates) = Out

\* the position a reference round's id leads to (0: none)
RefTarget(list, i) ==
  IF i # 0 /\ IsReference(list[i]) THEN FindFunding(list, list[i].referenceRoundId)
  ELSE 0

RECURSIVE RefIter(_, _, _)
RefIter(list, i, k) ==
  IF k = 0 THEN i ELSE RefIter(list, RefTarget(list, i), k - 1)

\* following the references from round i leads back to round i
OnCycle(list, i) ==
  IsReference(list[i]) /\ \E k \in 1..Len(list) : RefIter(list, i, k) = i

\* C6: every round on a reference cycle is returned with valuation 0 and the
\* cap table of the preceding event.
C6_CyclesDegradeToZero ==
  Recalculated =>
    \A i \in 1..Len(Out) :
      OnCycle(Out, i) =>
        /\ Out[i].calculatedValuation = Zero
        /\ Out[i].capTable = TableBefore(Out, i)

\* C7: a reference round returned with valuation 0 has pre-money 0 and
\* post-money 0.
C7_UnresolvedHasZeroFigures ==
  Recalculated =>
    \A i \in 1..Len(Out) :
      (IsReference(Out[i]) /\ Out[i].calculatedValuation = Zero) =>
        /\ Out[i].preMoneyValuation = Zero
        /\ Out[i].postMoneyValuation = Zero

(***************************************************************************)
(* Properties of the handlers                                              *)
(***************************************************************************)
\* the fields of an event that the user enters, its id and its order
SameEntries(o, n) ==
  /\ n.id = o.id
  /\ n.order = o.order
  /\ n.type = o.type
  /\ n.name = o.name
  /\ IF o.type = "funding"
     THEN /\ n.currency = o.currency
          /\ n.investmentAmount = o.investmentAmount
          /\ n.valuationType = o.valuationType
          /\ n.manualValuation = o.manualValuation
          /\ n.discountPercentage = o.discountPercentage
          /\ n.newInvestorName = o.newInvestorName
     ELSE n.percentage = o.percentage

\* C8: after removeEvent(id) no event has the id; every round that named it
\* has referenceRoundId "" and valuationSource "manual", and its calculated
\* valuation is its manual valuation; every other remaining event keeps its
\* id, order, referenceRoundId, valuationSource and entered fields.
C8_RemoveCleansReferences ==
  [][op'.name = "removeEvent" =>
       LET m == op'.model
           id == op'.id
           kept == SortByOrder(SelectSeq(events[m], LAMBDA e : e.id # id))
           new == events'[m]
       IN  /\ \A i \in 1..Len(new) : new[i].id # id
           /\ Len(new) = Len(kept)
           /\ \A i \in 1..Len(new) :
                /\ SameEntries(kept[i], new[i])
                /\ IsFunding(kept[i]) =>
                     IF kept[i].referenceRoundId = id
                     THEN /\ new[i].referenceRoundId = EmptyId
                          /\ new[i].valuationSource = "manual"
                          /\ new[i].calculatedValuation = new[i].manualValuation
                     ELSE /\ new[i].referenceRoundId = kept[i].referenceRoundId
                          /\ new[i].valuationSource = kept[i].valuationSource]_vars

\* removeEvent has removed a round that another round named, and two events
\* remain
C8_Witness ==
  /\ op.name = "removeEvent"
  /\ op.cleared >= 1
  /\ Len(events["A"]) = 2
  /\ \A i \in 1..2 :
       IsFunding(events["A"][i]) => events["A"][i].valuationSource = "manual"

\* C9: addRound and addOptionPool with insertAfterOrder = k raise by one the
\* order of every event with order > k, keep the others and give the new event
\* order k + 1; without insertAfterOrder the new event gets the greatest order
\* plus one (1 in an empty list) and no order changes; the existing events keep
\* their relative processing order.
C9_InsertSemantics ==
  [][op'.name \in {"addRound", "addOptionPool"} =>
       LET m == op'.model
           k == op'.after
           old == SortByOrder(events[m])
           new == SortByOrder(events'[m])
           newOrder == IF k # Undefined THEN k + 1
                       ELSE IF Len(old) = 0 THEN 1
                       ELSE old[Len(old)].order + 1
       IN  /\ Len(new) = Len(old) + 1
           /\ \E j \in 1..Len(new) :
                /\ new[j].id = op'.id
                /\ new[j].order = newOrder
                /\ \A i \in 1..Len(old) :
                     LET n == new[IF i < j THEN i ELSE i + 1] IN
                     /\ n.id = old[i].id
                     /\ n.order = old[i].order +
                          (IF k # Undefined /\ old[i].order > k THEN 1 ELSE 0)]_vars

\* an event was inserted between two events, after order 1
C9_Witness ==
  /\ op.name \in {"addRound", "addOptionPool"}
  /\ op.after = 1
  /\ Len(events["A"]) = 3
  /\ \E i \in 1..3 : events["A"][i].id = op.id /\ events["A"][i].order = 2
  /\ \E i \in 1..3 : events["A"][i].id # op.id /\ events["A"][i].order = 3

\* C10: the order values of the events of a model are pairwise distinct.
C10_OrdersUnique ==
  \A m \in Models : \A i \in 1..Len(events[m]) : \A j \in 1..Len(events[m]) :
    i # j => events[m][i].order # events[m][j].order

\* an event was inserted before the first event of a list whose orders had a
\* gap left by a removal
C10_Witness ==
  /\ op.name \in {"addRound", "addOptionPool"}
  /\ op.after = 0
  /\ Len(events["A"]) = 2
  /\ \E i \in 1..2 : events["A"][i].id = op.id /\ events["A"][i].order = 1
  /\ \E i \in 1..2 : events["A"][i].order = 3

\* C11: after every addRound, addOptionPool, updateEvent and removeEvent the
\* stored list of the model is the list recalculateAllEvents derives from it:
\* every event carries the cap table the engine computes from the founder
\* baseline.
C11_HandlersRecalculate ==
  op.name \in {"addRound", "addOptionPool", "updateEvent", "removeEvent"} =>
    events[op.model] =
      recalculateAllEvents(events[op.model], founderName[op.model], allExchangeRates)

\* C12: every funding round with a non-empty referenceRoundId names a funding
\* round of the model with a strictly greater order.
C12_ReferencesPointLater ==
  \A m \in Models : \A i \in 1..Len(events[m]) :
    (IsFunding(events[m][i]) /\ events[m][i].referenceRoundId # EmptyId) =>
      \E j \in 1..Len(events[m]) :
        /\ IsFunding(events[m][j])
        /\ events[m][j].id = events[m][i].referenceRoundId
        /\ events[m][j].order > events[m][i].order

\* the share of its holding an existing shareholder keeps through a
\* non-degenerate event
KeptFraction(e) ==
  RDiv(RSub(Hundred, IF IsFunding(e) THEN InvestorPct(e) ELSE e.percentage), Hundred)

\* C13: a shareholder whose percentage after the dilution of an event, funding
\* round or option pool, is <= 0.01 is absent from the cap table of that event
\* and of every later event.
C13_MaterialityFloor ==
  Recalculated =>
    \A i \in 1..Len(Out) :
      ~Degenerate(Out[i]) =>
        \A k \in 1..Len(TableBefore(Out, i)) :
          LET sh == TableBefore(Out, i)[k] IN
          ~ProductExceeds(sh.percentage, KeptFraction(Out[i]), Frac(1, 100)) =>
            \A j \in i..Len(Out) : \A t \in 1..Len(Out[j].capTable) :
              Out[j].capTable[t].name # sh.name

\* Natural numbers of any size, as sequences of digits in base 10000 with the
\* lowest digit first: the sum of the percentages of a cap table has a
\* denominator beyond 32-bit integers.
BigOf(n) == <<n % 10000, (n \div 10000) % 10000, n \div 100000000>>

RECURSIVE BigAddCarry(_, _, _)
BigAddCarry(a, b, carry) ==
  IF a = <<>> /\ b = <<>> THEN (IF carry = 0 THEN <<>> ELSE <<carry>>)
  ELSE LET x == IF a = <<>> THEN 0 ELSE Head(a)
           y == IF b = <<>> THEN 0 ELSE Head(b)
           t == x + y + carry
       IN  <<t % 10000>> \o BigAddCarry(IF a = <<>> THEN a ELSE Tail(a),
                                       IF b = <<>> THEN b ELSE Tail(b), t \div 10000)

BigAdd(a, b) == BigAddCarry(a, b, 0)

\* a * digit for 0 <= digit < 10000
RECURSIVE BigTimesDigit(_, _, _)
BigTimesDigit(a, digit, carry) ==
  IF a = <<>> THEN (IF carry = 0 THEN <<>> ELSE <<carry>>)
  ELSE LET t == Head(a) * digit + carry
       IN  <<t % 10000>> \o BigTimesDigit(Tail(a), digit, t \div 10000)

\* a * n for an integer n >= 0
BigTimes(a, n) ==
  LET k == BigOf(n)
  IN  BigAdd(BigTimesDigit(a, k[1], 0),
             BigAdd(<<0>> \o BigTimesDigit(a, k[2], 0),
                    <<0, 0>> \o BigTimesDigit(a, k[3], 0)))

\* without the zero digits at the top
RECURSIVE BigTrim(_)
BigTrim(a) ==
  IF a = <<>> THEN a
  ELSE IF a[Len(a)] = 0 THEN BigTrim(SubSeq(a, 1, Len(a) - 1)) ELSE a

\* a < b for trimmed a and b, from the top digit down
RECURSIVE BigLessFrom(_, _, _)
BigLessFrom(a, b, i) ==
  IF i = 0 THEN FALSE
  ELSE IF a[i] # b[i] THEN a[i] < b[i] ELSE BigLessFrom(a, b, i - 1)

BigLess(a, b) ==
  LET x == BigTrim(a)
      y == BigTrim(b)
  IN  IF Len(x) # Len(y) THEN Len(x) < Len(y) ELSE BigLessFrom(x, y, Len(x))

\* the sum of the percentages of a cap table, as a pair <<N, D>> of big
\* numbers with sum = N / D
RECURSIVE SumOfPercentages(_)
SumOfPercentages(table) ==
  IF table = <<>> THEN <<BigOf(0), BigOf(1)>>
  ELSE LET rest == SumOfPercentages(Tail(table))
           pct == Head(table).percentage
       IN  <<BigAdd(BigTimes(rest[1], pct[2]), BigTimes(rest[2], pct[1])),
             BigTimes(rest[2], pct[2])>>

\* the percentages of a table sum to 100, to less than 100
SumIsHundred(table) ==
  LET sum == SumOfPercentages(table)
  IN  BigTrim(sum[1]) = BigTrim(BigTimes(sum[2], 100))

SumBelowHundred(table) ==
  LET sum == SumOfPercentages(table)
  IN  BigLess(sum[1], BigTimes(sum[2], 100))

\* the event at position i dropped no entry of the table before it
NothingPrunedAt(list, i) ==
  Len(list[i].capTable) =
    Len(TableBefore(list, i)) + (IF Degenerate(list[i]) THEN 0 ELSE 1)

\* C14: the percentages of every returned cap table sum to at most 100, and
\* to exactly 100 when no entry was pruned at that event or an earlier one.
C14_PercentagesPartition ==
  Recalculated =>
    \A i \in 1..Len(Out) :
      /\ SumIsHundred(Out[i].capTable) \/ SumBelowHundred(Out[i].capTable)
      /\ (\A j \in 1..i : NothingPrunedAt(Out, j)) =>
           SumIsHundred(Out[i].capTable)

\* a round and a pool that keep every holder (three entries summing to 100),
\* followed by a round that prunes (a sum below 100)
C14_Witness ==
  /\ Recalculated
  /\ Len(Out) = 3
  /\ NothingPrunedAt(Out, 1) /\ NothingPrunedAt(Out, 2)
  /\ Len(Out[2].capTable) = 3
  /\ \E k \in 1..2 : ~IsFunding(Out[k])
  /\ SumIsHundred(Out[2].capTable)
  /\ ~NothingPrunedAt(Out, 3)
  /\ SumBelowHundred(Out[3].capTable)

\* C15: an option pool with 0 < p < 100 returns the previous entries in the
\* same sequence, percentage and shares scaled by (100 - p)/100 (shares
\* rounded), followed by the entry {pool name, round(p/100 * 1,000,000), p};
\* the table of the preceding event stays as it was.
C15_OptionPoolDilution ==
  Recalculated =>
    \A i \in 1..Len(Out) :
      (/\ ~IsFunding(Out[i])
       /\ RGt(Out[i].percentage, Zero)
       /\ RLt(Out[i].percentage, Hundred)) =>
        LET p == Out[i].percentage
            f == RDiv(RSub(Hundred, p), Hundred)
            previous == TableBefore(Out, i)
        IN  Out[i].capTable =
              [k \in 1..Len(previous) |->
                 [name |-> previous[k].name,
                  shares |-> RoundTimes(previous[k].shares, f),
                  percentage |-> RMul(previous[k].percentage, f)]]
              \o << [name |-> Out[i].name,
                     shares |-> RoundTimes(1000000, RDiv(p, Hundred)),
                     percentage |-> p] >>

\* a pool of 10 per cent on a table of two entries, and a pool of 99 per cent
\* that takes an entry to 0.01 per cent or below and keeps it
C15_Witness ==
  /\ Recalculated
  /\ Len(Out) = 3
  /\ \E i \in 2..3 :
       /\ ~IsFunding(Out[i])
       /\ Out[i].percentage = Num(10)
       /\ Len(TableBefore(Out, i)) >= 2
       /\ Len(Out[i].capTable) = Len(TableBefore(Out, i)) + 1
  /\ \E i \in 2..3 :
       /\ ~IsFunding(Out[i])
       /\ Out[i].percentage = Num(99)
       /\ \E k \in 1..Len(Out[i].capTable) :
            RLe(Out[i].capTable[k].percentage, Frac(1, 100))

\* every field of an event that is an input of the engine
SameInputs(o, n) ==
  /\ SameEntries(o, n)
  /\ IsFunding(o) =>
       /\ n.valuationSource = o.valuationSource
       /\ n.referenceRoundId = o.referenceRoundId

\* the one-to-one assignments of the positions 1..n
Rearrangements(n) ==
  {f \in [1..n -> 1..n] : \A i, j \in 1..n : f[i] = f[j] => i = j}

\* C16: the returned list holds exactly the input events in ascending order;
\* the first cap table is the dilution of the founder baseline
\* {founderName, 1,000,000, 100} by the first event, and each later one the
\* dilution of the cap table returned for the event before it; without events
\* the table is the founder baseline.
C16_ThreadedFromBaseline ==
  Recalculated =>
    /\ Len(Out) = Len(loaded["A"])
    /\ \E f \in Rearrangements(Len(Out)) :
         \A i \in 1..Len(Out) : SameInputs(loaded["A"][f[i]], Out[i])
    /\ \A i \in 1..Len(Out) : \A j \in i..Len(Out) : Out[i].order <= Out[j].order
    /\ getInitialCapTable(founderName["A"]) =
         << [name |-> founderName["A"], shares |-> 1000000, percentage |-> Hundred] >>
    /\ \A i \in 1..Len(Out) :
         Out[i].capTable =
           CapTableAfter(Out[i],
                         IF i = 1 THEN getInitialCapTable(founderName["A"])
                         ELSE Out[i - 1].capTable)

\* an input listed in descending order, returned in ascending order with a
\* second cap table that holds the first event's new entry; and three
\* diluting events in a row, each adding an entry
C16_Witness ==
  /\ Recalculated
  /\ \/ /\ Len(Out) = 2
        /\ loaded["A"][1].order > loaded["A"][2].order
        /\ Out[1].id = loaded["A"][2].id
        /\ Len(Out[1].capTable) = 2
        /\ Len(Out[2].capTable) = 3
        /\ Out[2].capTable[2].name = Out[1].capTable[2].name
     \/ /\ Len(Out) = 3
        /\ \A i \in 1..3 : Len(Out[i].capTable) = i + 1

\* C17: a manual round is returned with calculatedValuation = manualValuation;
\* every manual round and every resolved reference round has, when pre-money,
\* pre = calculatedValuation and post = pre + investmentAmount, and when
\* post-money, post = calculatedValuation and pre = max(0, post - investmentAmount).
C17_PrePostDerivation ==
  Recalculated =>
    \A i \in 1..Len(Out) :
      IsFunding(Out[i]) =>
        /\ Out[i].valuationSource = "manual" =>
             Out[i].calculatedValuation = Out[i].manualValuation
        /\ (Out[i].valuationSource = "manual" \/ Out[i].calculatedValuation # Zero) =>
             IF Out[i].valuationType = "pre-money"
             THEN /\ Out[i].preMoneyValuation = Out[i].calculatedValuation
                  /\ Out[i].postMoneyValuation =
                       RAdd(Out[i].preMoneyValuation, Out[i].investmentAmount)
             ELSE /\ Out[i].postMoneyValuation = Out[i].calculatedValuation
                  /\ Out[i].preMoneyValuation =
                       RMax(Zero, RSub(Out[i].postMoneyValuation, Out[i].investmentAmount))

\* a manual post-money round whose investment exceeds its valuation (pre-money
\* held at 0), a manual pre-money round, and a resolved post-money reference
\* round
C17_Witness ==
  /\ Recalculated
  /\ Len(Out) = 3
  /\ \E i \in 1..3 :
       /\ IsFunding(Out[i]) /\ Out[i].valuationSource = "manual"
       /\ Out[i].valuationType = "post-money"
       /\ RGt(Out[i].investmentAmount, Out[i].postMoneyValuation)
       /\ Out[i].preMoneyValuation = Zero
  /\ \E i \in 1..3 :
       /\ IsFunding(Out[i]) /\ Out[i].valuationSource = "manual"
       /\ Out[i].valuationType = "pre-money"
       /\ Out[i].postMoneyValuation = Num(10000000)
  /\ \E i \in 1..3 :
       /\ IsReference(Out[i])
       /\ Out[i].valuationType = "post-money"
       /\ Out[i].calculatedValuation = Num(10000000)
       /\ Out[i].preMoneyValuation = Num(8000000)

\* C18: a pre-money round B that references a manual post-money round A of
\* the same currency with valuation V, at discount d, is returned with
\* calculatedValuation = preMoneyValuation = V * (100 - d)/100, whatever the
\* investment of A; V = 10,000,000 and d = 20 give 8,000,000.
C18_ReferenceWithDiscount ==
  Recalculated =>
    \A i \in 1..Len(Out) :
      LET j == RefTarget(Out, i) IN
      (/\ IsReference(Out[i])
       /\ Out[i].valuationType = "pre-money"
       /\ j # 0
       /\ Out[j].valuationSource = "manual"
       /\ Out[j].valuationType = "post-money"
       /\ Out[j].currency = Out[i].currency) =>
        LET V == Out[j].manualValuation
            d == Out[i].discountPercentage
        IN  /\ Out[i].calculatedValuation = RMul(V, RDiv(RSub(Hundred, d), Hundred))
            /\ Out[i].preMoneyValuation = Out[i].calculatedValuation
            /\ (V = Num(10000000) /\ d = Num(20)) =>
                 Out[i].calculatedValuation = Num(8000000)

(***************************************************************************)
(* Properties of the conversion                                            *)
(***************************************************************************)
Converted == op.name = "convertCurrency"

\* C19: convertCurrency returns the amount unchanged when from = to and when
\* the directed rate of the pair is zero or negative, for every pair of
\* primary rates (zero and negative ones included); otherwise it returns
\* amount * rate.  A positive amount is never converted to a value <= 0.
C19_LenientConversion ==
  Converted =>
    /\ op.result =
         (IF op.fromCurrency = op.toCurrency
             \/ RLe(allExchangeRates[<<op.fromCurrency, op.toCurrency>>], Zero)
          THEN op.amount
          ELSE RMul(op.amount, allExchangeRates[<<op.fromCurrency, op.toCurrency>>]))
    /\ RGt(op.amount, Zero) => RGt(op.result, Zero)

\* the rate of a pair before it is rounded, for positive primary rates
ExactRate(primaryRates, fromCurrency, toCurrency) ==
  LET u == primaryRates.usdGbp
      e == primaryRates.usdEur
      usd(c) == IF c = "USD" THEN Num(1) ELSE IF c = "GBP" THEN u ELSE e
  IN  RDiv(usd(toCurrency), usd(fromCurrency))

\* the largest error that rounding to 4 decimal places puts into the rate of
\* a pair: half of 0.0001 for the derived rates, none for the primary rates
RateRoundingError(fromCurrency, toCurrency) ==
  IF fromCurrency = "USD" THEN Zero ELSE Frac(1, 20000)

\* the largest relative error of a round trip from a to b and back that the
\* rounding of the two rates accounts for, as the three terms of
\* |(r_ab + d_ab) * (r_ba + d_ba) - 1| with r_ab * r_ba = 1
RoundTripTolerance(primaryRates, a, b) ==
  LET dab == RateRoundingError(a, b)
      dba == RateRoundingError(b, a)
  IN  <<RMul(dab, ExactRate(primaryRates, b, a)),
        RMul(dba, ExactRate(primaryRates, a, b)),
        RMul(dab, dba)>>

\* diff <= x * (t[1] + t[2] + t[3]) for diff, x >= 0, over the common
\* denominator and with numbers of any size
WithinTolerance(diff, x, t) ==
  LET sumN == BigAdd(BigTimes(BigTimes(BigOf(t[1][1]), t[2][2]), t[3][2]),
                     BigAdd(BigTimes(BigTimes(BigOf(t[2][1]), t[1][2]), t[3][2]),
                            BigTimes(BigTimes(BigOf(t[3][1]), t[1][2]), t[2][2])))
      sumD == BigTimes(BigTimes(BigOf(t[1][2]), t[2][2]), t[3][2])
  IN  ~BigLess(BigTimes(BigTimes(sumN, x[1]), diff[2]),
               BigTimes(BigTimes(sumD, x[2]), diff[1]))

\* C20: for positive primary rates, converting an amount from A to B and back
\* to A gives the amount up to the error that rounding the derived rates to 4
\* decimal places introduces.
C20_RoundTrip ==
  (/\ Converted
   /\ RGt(primaryExchangeRates.usdGbp, Zero)
   /\ RGt(primaryExchangeRates.usdEur, Zero)) =>
    LET diff == RSub(op.back, op.amount)
    IN  \/ op.back = op.amount
        \/ /\ op.fromCurrency # op.toCurrency
           /\ WithinTolerance(<<Abs(diff[1]), diff[2]>>, op.amount,
                              RoundTripTolerance(primaryExchangeRates,
                                                 op.fromCurrency, op.toCurrency))

\* the same for the primary rates whose ratios are all at least 0.00005
C20_RoundTripModerateRates ==
  (\A key \in {"usdGbp", "usdEur"} : primaryExchangeRates[key] \in {Frac(1, 2), Frac(79, 100), Frac(23, 25)})
    => C20_RoundTrip

(***************************************************************************)
(* Properties of the handlers under a clock that can repeat a millisecond  *)
(***************************************************************************)
\* C21: the ids of the events of a model are pairwise distinct, also when
\* Date.now() returns the same millisecond to two calls.
C21_IdsUnique ==
  \A m \in Models : \A i, j \in 1..Len(events[m]) :
    events[m][i].id = events[m][j].id => i = j

(***************************************************************************)
(* Further properties of the engine                                        *)
(***************************************************************************)
\* C22: recalculateAllEvents returns an event list for every input list
\* (cycles, self-references, missing ids, equal order values and degenerate
\* amounts included), one event per input event, after at most 10 passes of
\* the loop of the second pass.
C22_TotalWithinTenPasses ==
  Recalculated =>
    /\ op.passes <= 10
    /\ Len(Out) = Len(loaded["A"])
    /\ \A i \in 1..Len(Out) :
         /\ \E k \in 1..Len(loaded["A"]) : Out[i].id = loaded["A"][k].id
         /\ Out[i].capTable \in Seq([name : {Out[i].capTable[k].name : k \in 1..Len(Out[i].capTable)},
                                     shares : Int,
                                     percentage : Int \X Int])

\* a list with a self-reference, a two-round cycle or a missing id that is
\* never resolved: the loop runs its 10 passes; the list holds events of equal
\* order
C22_Witness ==
  /\ Recalculated
  /\ op.passes = 10
  /\ Len(Out) = 2
  /\ Out[1].order = Out[2].order
  /\ \E i \in 1..2 : OnCycle(Out, i)
  /\ \E i \in 1..2 : Degenerate(Out[i])

\* the list as generateFullSaveString writes it and loadState reads it back:
\* every field kept but capTable, which comes back empty
SavedAndLoaded(list) ==
  [i \in 1..Len(list) |-> [list[i] EXCEPT !.capTable = <<>>]]

\* a list with the same input fields and other derived fields
OtherDerived(list) ==
  [i \in 1..Len(list) |->
     LET capTable == <<[name |-> <<"Stale", 0>>, shares |-> 1, percentage |-> Num(50)]>> IN
     IF list[i].type = "funding"
     THEN [list[i] EXCEPT !.calculatedValuation = Num(7 * Million),
                          !.preMoneyValuation = Num(5 * Million),
                          !.postMoneyValuation = Num(9 * Million),
                          !.capTable = capTable]
     ELSE [list[i] EXCEPT !.capTable = capTable]]

\* C23: the derived fields of the input (calculatedValuation, pre- and
\* post-money valuation, capTable) do not influence the output: lists that
\* differ only in them recalculate to the same list, and a returned list
\* saved without its cap tables and loaded recalculates to itself.
C23_DerivedFieldsIgnored ==
  Recalculated =>
    LET result(list) == recalculateAllEvents(list, founderName["A"], allExchangeRates)
    IN  /\ result(OtherDerived(loaded["A"])) = result(loaded["A"])
        /\ result(OtherDerived(Out)) = result(Out)
        /\ result(SavedAndLoaded(Out)) = Out

\* a returned list with a resolved reference round, a reference round left at
\* zero and an option pool
C23_Witness ==
  /\ Recalculated
  /\ SavedAndLoaded(Out) # Out
  /\ OtherDerived(Out) # Out
  /\ \E i \in 1..Len(Out) : IsReference(Out[i]) /\ Out[i].calculatedValuation # Zero
  /\ \E i \in 1..Len(Out) : IsReference(Out[i]) /\ Out[i].calculatedValuation = Zero
  /\ \E i \in 1..Len(Out) : ~IsFunding(Out[i])

\* the valuation of the target a round at position i names, as the list holds
\* it, chosen by the referencing round's valuationType; Zero without a target
ChosenTargetValuation(list, i) ==
  LET j == FindFunding(list, list[i].referenceRoundId) IN
  IF j = 0 THEN Zero
  ELSE IF list[i].valuationType = "pre-money" THEN list[j].preMoneyValuation
  ELSE list[j].postMoneyValuation

\* C24: a reference round whose target passes the resolved test while its
\* chosen valuation is still <= 0 is retried in the next pass: whenever the
\* target's chosen valuation is > 0 in the returned list and the discount is
\* below 100, the referencing round is returned with calculatedValuation > 0.
C24_TransientZeroRetried ==
  Recalculated =>
    \A i \in 1..Len(Out) :
      ( /\ IsReference(Out[i])
        /\ RGt(ChosenTargetValuation(Out, i), Zero)
        /\ RLt(Out[i].discountPercentage, Hundred) )
      => RGt(Out[i].calculatedValuation, Zero)

\* the list with its events listed in the order f gives
Relisted(list, f) == [i \in 1..Len(list) |-> list[f[i]]]

DistinctOrdersAndIds(list) ==
  \A i, j \in 1..Len(list) :
    i # j => list[i].order # list[j].order /\ list[i].id # list[j].id

\* C25: for an event list with pairwise distinct order values and pairwise
\* distinct ids, recalculateAllEvents returns the same list (same valuations,
\* same cap tables) for every order in which the caller lists the events.
C25_ListingOrderIrrelevant ==
  (Recalculated /\ DistinctOrdersAndIds(loaded["A"])) =>
    \A f \in Rearrangements(Len(loaded["A"])) :
      recalculateAllEvents(Relisted(loaded["A"], f), founderName["A"], allExchangeRates)
        = Out

\* three events with distinct orders, one of them a reference round resolved
\* from a round that comes after it, so that the six listings differ
C25_Witness ==
  /\ Recalculated
  /\ DistinctOrdersAndIds(loaded["A"])
  /\ Len(Out) = 3
  /\ \E i \in 1..3 :
       /\ IsReference(Out[i])
       /\ Out[i].calculatedValuation # Zero
       /\ FindFunding(Out, Out[i].referenceRoundId) > i
  /\ \A i \in 1..3 : Len(Out[i].capTable) = i + 1

(***************************************************************************)
(* The engine on lists with numbers no form field would hold: negative     *)
(* amounts and valuations, discounts above 100, a negative exchange rate,  *)
(* pool percentages outside [0, 100].  loadState hands such a list, and    *)
(* such rates, to recalculateAllEvents unchanged.                          *)
(***************************************************************************)
\* primary rates with a negative USD-GBP rate
AnyNumbersPrimaryRates == [usdGbp |-> Frac(-4, 5), usdEur |-> Frac(1, 2)]

AnyNumbersShapes ==
  [type : {"funding"}, valuationSource : {"manual"},
   valuationType : {"pre-money", "post-money"},
   investmentAmount : {Num(-2 * Million), Num(2 * Million)},
   manualValuation : {Num(-8 * Million), Num(8 * Million)},
   ref : {0}, discountPercentage : {Zero}, currency : {"USD"}]
  \cup
  { [type |-> "funding", valuationSource |-> "manual", valuationType |-> "pre-money",
     investmentAmount |-> Zero, manualValuation |-> Num(8 * Million),
     ref |-> 0, discountPercentage |-> Zero, currency |-> "USD"],
    [type |-> "funding", valuationSource |-> "manual", valuationType |-> "post-money",
     investmentAmount |-> Num(2 * Million), manualValuation |-> Zero,
     ref |-> 0, discountPercentage |-> Zero, currency |-> "USD"] }
  \cup
  [type : {"funding"}, valuationSource : {"reference"},
   valuationType : {"pre-money", "post-money"},
   investmentAmount : {Num(2 * Million)},
   manualValuation : {Zero},
   ref : {1}, discountPercentage : {Num(20), Num(150)}, currency : {"GBP", "EUR"}]
  \cup
  [type : {"option-pool"}, percentage : {Num(-10), Num(50), Num(150)}]

AnyNumbersInit ==
  /\ comparisonMode = FALSE
  /\ founderName = [m \in Models |-> Founders]
  /\ \E n \in 0..MaxEvents : \E shapes \in [1..n -> AnyNumbersShapes] :
       events = [m \in Models |->
                   IF m = "A" THEN [i \in 1..n |-> EventOf(shapes, i, i)] ELSE <<>>]
  /\ primaryExchangeRates = AnyNumbersPrimaryRates
  /\ allExchangeRates = deriveAllExchangeRates(AnyNumbersPrimaryRates)
  /\ now = 0
  /\ op = [name |-> "input"]
  /\ loaded = events
  /\ pending = NoEffect

SpecAnyNumbers == AnyNumbersInit /\ [][EngineNext]_vars

FounderPercentage(capTable) ==
  LET held == {k \in 1..Len(capTable) : capTable[k].name = founderName["A"]}
  IN  IF held = {} THEN Zero ELSE capTable[CHOOSE k \in held : TRUE].percentage

\* C28: along the returned list, an entry carried over from the table before an
\* event into the event's capTable has a percentage and a share count no
\* greater than before, the table grows by at most one entry per event, and
\* the founders' percentage never rises from one event to the next.
C28_DilutionMonotone ==
  Recalculated =>
    \A i \in 1..Len(Out) :
      LET before == TableBefore(Out, i)
          after == Out[i].capTable
      IN  /\ Len(after) <= Len(before) + 1
          /\ \A j \in 1..Len(before) : \A k \in 1..Len(after) :
               after[k].name = before[j].name =>
                 /\ RLe(after[k].percentage, before[j].percentage)
                 /\ after[k].shares <= before[j].shares
          /\ RLe(FounderPercentage(after), FounderPercentage(before))

\* three events in a row that each dilute: the founders' percentage falls
\* three times and the first investor's entry is carried over twice, each
\* time with a smaller percentage and fewer shares
C28_Witness ==
  /\ Recalculated
  /\ Len(Out) = 3
  /\ \A i \in 1..3 :
       RLt(FounderPercentage(Out[i].capTable), FounderPercentage(TableBefore(Out, i)))
  /\ Len(Out[3].capTable) = 4
  /\ Out[3].capTable[2].name = Out[1].capTable[2].name
  /\ RLt(Out[3].capTable[2].percentage, Out[1].capTable[2].percentage)
  /\ Out[3].capTable[2].shares < Out[1].capTable[2].shares

(***************************************************************************)
(* Comparison mode: the second model, the copies between the two models,   *)
(* the founder name fields, and the effects React runs after a render.     *)
(***************************************************************************)
MaxCompareNow == 2
MaxCompareUpdates == 1

\* JSON.parse(JSON.stringify(events)): a new list with a new record for every
\* event, holding the same fields (the numbers of a list are finite and no
\* field is undefined, so nothing is dropped or turned into null)
JsonCopy(list) ==
  [i \in 1..Len(list) |-> [field \in DOMAIN list[i] |-> list[i][field]]]

\* what can be typed into the founder name field
FounderNames == {Founders, <<"Team", 0>>}

enableComparisonMode ==
  /\ ~comparisonMode
  /\ founderName' = [founderName EXCEPT !["B"] = founderName["A"]]
  /\ events' = [events EXCEPT !["B"] = JsonCopy(events["A"])]
  /\ comparisonMode' = TRUE
  /\ pending' = [rates |-> FALSE, recalculate |-> founderName["B"] # founderName["A"]]
  /\ op' = Ran("enableComparisonMode", "B", EmptyId, Undefined, 0, op.updates)
  /\ UNCHANGED <<primaryExchangeRates, allExchangeRates, now, loaded>>

disableComparisonMode ==
  /\ comparisonMode
  /\ comparisonMode' = FALSE
  /\ op' = Ran("disableComparisonMode", "B", EmptyId, Undefined, 0, op.updates)
  /\ UNCHANGED <<founderName, events, primaryExchangeRates, allExchangeRates, now,
                 loaded, pending>>

\* copyModelAToB copying the events and leaving the founder name of model B
copyEventsAToB ==
  /\ comparisonMode
  /\ events' = [events EXCEPT !["B"] = JsonCopy(events["A"])]
  /\ op' = Ran("copyModelAToB", "B", EmptyId, Undefined, 0, op.updates)
  /\ UNCHANGED <<comparisonMode, founderName, primaryExchangeRates, allExchangeRates,
                 now, loaded, pending>>

copyModelAToB ==
  /\ comparisonMode
  /\ founderName' = [founderName EXCEPT !["B"] = founderName["A"]]
  /\ events' = [events EXCEPT !["B"] = JsonCopy(events["A"])]
  /\ pending' = [rates |-> FALSE, recalculate |-> founderName["B"] # founderName["A"]]
  /\ op' = Ran("copyModelAToB", "B", EmptyId, Undefined, 0, op.updates)
  /\ UNCHANGED <<comparisonMode, primaryExchangeRates, allExchangeRates, now, loaded>>

copyModelBToA ==
  /\ comparisonMode
  /\ founderName' = [founderName EXCEPT !["A"] = founderName["B"]]
  /\ events' = [events EXCEPT !["A"] = JsonCopy(events["B"])]
  /\ pending' = [rates |-> FALSE, recalculate |-> founderName["A"] # founderName["B"]]
  /\ op' = Ran("copyModelBToA", "A", EmptyId, Undefined, 0, op.updates)
  /\ UNCHANGED <<comparisonMode, primaryExchangeRates, allExchangeRates, now, loaded>>

\* onChange of the founder name field of a model
setFounderName(m, value) ==
  /\ value # founderName[m]
  /\ founderName' = [founderName EXCEPT ![m] = value]
  /\ pending' = [rates |-> FALSE, recalculate |-> TRUE]
  /\ op' = Ran("setFounderName", m, EmptyId, Undefined, 0, op.updates)
  /\ UNCHANGED <<comparisonMode, events, primaryExchangeRates, allExchangeRates, now,
                 loaded>>

CompareClock == {t \in {now + 1} : t <= MaxCompareNow}

NextComparison ==
  \/ RunEffects
  \/ Idle /\ enableComparisonMode
  \/ Idle /\ disableComparisonMode
  \/ Idle /\ copyModelAToB
  \/ Idle /\ copyModelBToA
  \/ Idle /\ \E m \in Shown : \E value \in FounderNames : setFounderName(m, value)
  \/ Idle /\ \E m \in Shown : \E time \in CompareClock :
       \E k \in {Undefined} \cup InsertionPoints(events[m]) : addRound(m, k, time)
  \/ Idle /\ \E m \in Shown : \E time \in CompareClock :
       \E k \in {Undefined} \cup InsertionPoints(events[m]) : addOptionPool(m, k, time)
  \/ Idle /\ \E m \in Shown : \E i \in 1..Len(events[m]) :
       \E c \in FieldChoices(events[m], events[m][i]) :
         /\ op.updates < MaxCompareUpdates
         /\ events[m][i][c[1]] # c[2]
         /\ updateEvent(m, events[m][i].id, c[1], c[2])
  \/ Idle /\ \E m \in Shown : \E i \in 1..Len(events[m]) : removeEvent(m, events[m][i].id)

SpecComparison == Init /\ [][NextComparison]_vars

Other(m) == IF m = "A" THEN "B" ELSE "A"

\* C29: right after enableComparisonMode or copyModelAToB the founder name and
\* the events of model B equal those of model A, and right after copyModelBToA
\* those of model A equal those of model B; addRound, addOptionPool,
\* updateEvent and removeEvent on one model leave the founder name and the
\* event list of the other model as they were.
C29_ModelsIsolated ==
  [][ /\ op'.name \in {"enableComparisonMode", "copyModelAToB", "copyModelBToA"} =>
           /\ founderName'["B"] = founderName'["A"]
           /\ events'["B"] = events'["A"]
           /\ op'.name = "copyModelBToA" =>
                founderName'["A"] = founderName["B"] /\ events'["A"] = events["B"]
           /\ op'.name # "copyModelBToA" =>
                founderName'["B"] = founderName["A"] /\ events'["B"] = events["A"]
      /\ op'.name \in {"addRound", "addOptionPool", "updateEvent", "removeEvent"} =>
           /\ events'[Other(op'.model)] = events[Other(op'.model)]
           /\ founderName' = founderName ]_vars

\* after a copy and an edit the two models differ: both hold events and a
\* founder name of their own, and the last handler changed one of them only
C29_Witness ==
  /\ comparisonMode
  /\ op.name \in {"updateEvent", "removeEvent", "addRound", "addOptionPool"}
  /\ op.model = "B"
  /\ events["A"] # <<>>
  /\ events["B"] # <<>>
  /\ events["A"] # events["B"]
  /\ founderName["A"] # founderName["B"]
  /\ \E i \in 1..Len(events["B"]) : events["B"][i].id[3] = "A"

NoReferenceRound(list) == \A i \in 1..Len(list) : ~IsReference(list[i])

\* the order at which the handler of a step acts on the list it finds: the
\* order the new event gets, or the order of the event it updates or removes
ActsAtOrder(list, ran) ==
  IF ran.name \in {"addRound", "addOptionPool"}
  THEN (IF ran.after = Undefined THEN getNextOrder(list) ELSE ran.after + 1)
  ELSE LET found == {i \in 1..Len(list) : list[i].id = ran.id}
       IN  list[CHOOSE i \in found : TRUE].order

\* the valuations and the cap table of an event are those of the other
SameDerived(o, n) ==
  /\ n.capTable = o.capTable
  /\ IsFunding(o) =>
       /\ n.calculatedValuation = o.calculatedValuation
       /\ n.preMoneyValuation = o.preMoneyValuation
       /\ n.postMoneyValuation = o.postMoneyValuation

\* the events of the list before the step with an order below k are in the
\* list after it with the valuations and the cap table they had
EarlierEventsKept(before, after, k) ==
  \A i \in 1..Len(before) :
    before[i].order < k =>
      \E j \in 1..Len(after) :
        after[j].id = before[i].id /\ SameDerived(before[i], after[j])

\* C30: in a model without reference-sourced rounds, adding an event at order
\* k, updating an input field of the event at order k, or removing the event
\* at order k leaves the valuations and the capTable of every event with an
\* order below k unchanged.
C30_NoBackwardPropagation ==
  [][ ( /\ op'.name \in {"addRound", "addOptionPool", "updateEvent", "removeEvent"}
        /\ NoReferenceRound(events[op'.model])
        /\ NoReferenceRound(events'[op'.model]) )
      => EarlierEventsKept(events[op'.model], events'[op'.model],
                           ActsAtOrder(events[op'.model], op')) ]_vars

\* the same for a list that is the result of a recalculation, as every list
\* is that was not just extended by an appended round
C30_NoBackwardPropagationRecalculated ==
  [][ ( /\ op'.name \in {"addRound", "addOptionPool", "updateEvent", "removeEvent"}
        /\ NoReferenceRound(events[op'.model])
        /\ NoReferenceRound(events'[op'.model])
        /\ events[op'.model] =
             recalculateAllEvents(events[op'.model], founderName[op'.model],
                                  allExchangeRates) )
      => EarlierEventsKept(events[op'.model], events'[op'.model],
                           ActsAtOrder(events[op'.model], op')) ]_vars

(***************************************************************************)
(* Exchange rates and saved states: updatePrimaryExchangeRate and          *)
(* loadState on models that hold rounds in several currencies, and the     *)
(* effects that follow them.                                               *)
(***************************************************************************)
\* the rates typed into the rate inputs and held by the saved states
SavedRateChoices == {Frac(1, 2), Frac(4, 5)}

\* a founder name that was saved empty
NoName == <<"", 0>>

\* state.modelA.founderName || "Founders"
OrFounders(name) == IF name = NoName THEN Founders ELSE name

\* two saved event lists: a USD round that takes the valuation of a later GBP
\* round at a discount; and a EUR round, an option pool and a GBP round that
\* takes the post-money valuation of the EUR round
SavedListOne ==
  << FundingRound(<<"round", 1, "A">>, <<"Series", 1>>, <<"Series Investor", 1>>, 1,
                  "USD", Num(2 * Million), "pre-money", "reference", Zero,
                  <<"round", 2, "A">>, Num(20)),
     FundingRound(<<"round", 2, "A">>, <<"Series", 2>>, <<"Series Investor", 2>>, 2,
                  "GBP", Num(2 * Million), "pre-money", "manual", Num(8 * Million),
                  EmptyId, Zero) >>

SavedListTwo ==
  << FundingRound(<<"round", 1, "B">>, <<"Series", 1>>, <<"Series Investor", 1>>, 1,
                  "EUR", Num(2 * Million), "post-money", "manual", Num(10 * Million),
                  EmptyId, Zero),
     OptionPool(<<"pool", 2, "B">>, <<"Option Pool", 1>>, Num(10), 2),
     FundingRound(<<"round", 3, "B">>, <<"Series", 2>>, <<"Series Investor", 2>>, 3,
                  "GBP", Num(Million), "post-money", "reference", Zero,
                  <<"round", 1, "B">>, Zero) >>

Saved(kind, present, exchangeRates, comparison, modelA, modelB, rounds, optionPools) ==
  [kind |-> kind, present |-> present, exchangeRates |-> exchangeRates,
   comparisonMode |-> comparison, modelA |-> modelA, modelB |-> modelB,
   rounds |-> rounds, optionPools |-> optionPools]

ModelData(name, list) == [founderName |-> name, events |-> list]

\* the parsed states handed to loadState: kind "new" holds modelA (and modelB
\* when present names it), kind "events" holds founderName and events at the
\* top level (kept in modelA here), kind "legacy" holds rounds and optionPools;
\* exchangeRates counts only when present names it
SavedStates ==
  { Saved("new", {}, DEFAULT_PRIMARY_EXCHANGE_RATES, FALSE,
          ModelData(Founders, SavedListOne), ModelData(NoName, <<>>), <<>>, <<>>),
    Saved("new", {"exchangeRates", "modelB"},
          [usdGbp |-> Frac(1, 2), usdEur |-> Frac(1, 2)], TRUE,
          ModelData(<<"Team", 0>>, SavedListOne), ModelData(Founders, SavedListTwo),
          <<>>, <<>>),
    Saved("new", {"exchangeRates"},
          [usdGbp |-> Frac(4, 5), usdEur |-> Frac(92, 100)], TRUE,
          ModelData(NoName, SavedListTwo), ModelData(NoName, <<>>), <<>>, <<>>),
    Saved("events", {"exchangeRates"},
          [usdGbp |-> Frac(1, 2), usdEur |-> Frac(92, 100)], FALSE,
          ModelData(<<"Team", 0>>, SavedListOne), ModelData(NoName, <<>>), <<>>, <<>>),
    Saved("legacy", {}, DEFAULT_PRIMARY_EXCHANGE_RATES, FALSE,
          ModelData(Founders, <<>>), ModelData(NoName, <<>>),
          <<SavedListTwo[1], SavedListTwo[3]>>, <<SavedListTwo[2]>>) }

\* restoredEvents of the oldest format: the rounds at the orders 1, 3, 5, ...,
\* then the option pools at the orders 2, 4, 6, ...
LegacyEvents(rounds, optionPools) ==
  [i \in 1..Len(rounds) |->
     [rounds[i] EXCEPT !.type = "funding", !.capTable = <<>>, !.order = (i - 1) * 2 + 1]]
  \o
  [i \in 1..Len(optionPools) |->
     [optionPools[i] EXCEPT !.type = "option-pool", !.capTable = <<>>,
                            !.order = (i - 1) * 2 + 2]]

\* loadState(state).  recalculateAllEvents converts with the table of the
\* render in which loadState was called; outside the new format, and in it
\* without a model B to load, model B gets a JSON copy of an events list that
\* was not recalculated: the restored list of model A in the new format, the
\* eventsA of the render in the older ones.  The rates effect is due when the
\* primary rates object changes: always when the state holds rates, else when
\* the current rates are not the default ones.
loadState(state) ==
  LET rates == IF "exchangeRates" \in state.present THEN state.exchangeRates
               ELSE DEFAULT_PRIMARY_EXCHANGE_RATES
      nameA == OrFounders(state.modelA.founderName)
      restoredA == IF state.kind = "legacy"
                   THEN LegacyEvents(state.rounds, state.optionPools)
                   ELSE SavedAndLoaded(state.modelA.events)
      loadsB == /\ state.kind = "new"
                /\ state.comparisonMode
                /\ "modelB" \in state.present
      nameB == IF loadsB THEN OrFounders(state.modelB.founderName) ELSE nameA
      names == [m \in Models |-> IF m = "A" THEN nameA ELSE nameB]
  IN  /\ primaryExchangeRates' = rates
      /\ comparisonMode' = (state.kind = "new" /\ state.comparisonMode)
      /\ founderName' = names
      /\ events' =
           [m \in Models |->
              IF m = "A"
              THEN recalculateAllEvents(restoredA, nameA, allExchangeRates)
              ELSE IF loadsB
              THEN recalculateAllEvents(SavedAndLoaded(state.modelB.events), nameB,
                                        allExchangeRates)
              ELSE IF state.kind = "new" THEN JsonCopy(restoredA)
              ELSE JsonCopy(events["A"])]
      /\ pending' =
           [rates |-> ("exchangeRates" \in state.present
                       \/ primaryExchangeRates # DEFAULT_PRIMARY_EXCHANGE_RATES),
            recalculate |-> names # founderName]
      /\ loaded' = [m \in Models |->
                      IF m = "A" THEN restoredA
                      ELSE IF loadsB THEN SavedAndLoaded(state.modelB.events)
                      ELSE loaded[m]]
      /\ op' = [name |-> "loadState", key |-> state.kind, value |-> Zero,
                changed |-> rates # primaryExchangeRates]
      /\ UNCHANGED <<allExchangeRates, now>>

NextRates ==
  \/ RunEffects
  \/ Idle /\ \E key \in {"usdGbp", "usdEur"} : \E value \in SavedRateChoices :
       updatePrimaryExchangeRate(key, value)
  \/ Idle /\ \E state \in SavedStates : loadState(state)

\* what a step of RunEffects does to the effects that are due; no other step
\* is possible while an effect is due
EffectsRun ==
  /\ pending # NoEffect
  /\ pending' = [rates |-> FALSE, recalculate |-> pending.rates]

\* React runs the effects that are due after every render: a step of
\* RunEffects is taken whenever an effect is due
SpecRates == Init /\ [][NextRates]_vars /\ WF_pending(EffectsRun)

\* the six rates are those of the primary rates, and every shown model is the
\* recalculation of itself under them
RatesReached ==
  /\ allExchangeRates = deriveAllExchangeRates(primaryExchangeRates)
  /\ \A m \in Shown :
       events[m] = recalculateAllEvents(events[m], founderName[m], allExchangeRates)

\* C26: after updatePrimaryExchangeRate or loadState changed the primary
\* rates, the effects run until none is due, and when none is due any more
\* allExchangeRates is deriveAllExchangeRates(primaryExchangeRates) and the
\* events of model A (and of model B in comparison mode) are their own
\* recalculation under that table.
C26_RatesReachValuations ==
  /\ []((Idle /\ op.name = "useEffect") => RatesReached)
  /\ ((op.name \in {"updatePrimaryExchangeRate", "loadState"} /\ op.changed)
        ~> (Idle /\ RatesReached))

\* the effects have run after a change of the rates, in comparison mode, on a
\* model A whose reference round converts the valuation of a round in another
\* currency, under rates that are not the initial ones
C26_Witness ==
  /\ Idle
  /\ op.name = "useEffect"
  /\ op.changed
  /\ op.key \in {"usdGbp", "usdEur"}
  /\ comparisonMode
  /\ primaryExchangeRates # DEFAULT_PRIMARY_EXCHANGE_RATES
  /\ events["B"] # <<>>
  /\ \E i \in 1..Len(events["A"]) :
       LET j == FindFunding(events["A"], events["A"][i].referenceRoundId) IN
       /\ IsReference(events["A"][i])
       /\ j # 0
       /\ events["A"][j].currency # events["A"][i].currency
       /\ events["A"][i].calculatedValuation =
            DiscountedValuation(events["A"][i], events["A"][j],
                                ReferenceValuation(events["A"][i], events["A"][j]),
                                deriveAllExchangeRates(primaryExchangeRates))

====
